---- MODULE Spec2Model ----
(***************************************************************************)
(* TechHive Automation (server v2.0.0): an express service that proxies    *)
(* the Shopify product API, keeps a capped in-memory activity log and runs *)
(* three catalog routines (titles, inventory tags, SEO descriptions) from  *)
(* cron schedules and manual triggers.                                     *)
(*                                                                         *)
(* Node runs one callback at a time: every action below is one callback    *)
(* run from its start to its next await (or its end).  An upstream call is *)
(* issued by one action and answered by a later one.                       *)
(*                                                                         *)
(* JavaScript strings are sequences of one-character strings here, so that *)
(* replace, trim, split, join, startsWith and the case conversions are     *)
(* computed and not assumed.                                               *)
(***************************************************************************)
EXTENDS Integers, Sequences, FiniteSets, TLC

\* ------------------------------------------------------------------ bounds
MaxRuns == 2
MaxReqs == 2
MaxBulkIds == 3
MaxInserts == 102
VariedPrefix == 2
MaxTitleLen == 3
MaxTags == 2
MaxVariants == 2

\* ------------------------------------------------------- program constants
LOG_CAP == 100
LOW_STOCK == 10
SEO_MIN_LENGTH == 50

\* ----------------------------------------------------------- JS strings
\* The characters of the model.  "\t" stands for every white space character
\* other than the space, "s"/"S" for the cased letters, and SHARP_S (the one
\* character U+00DF, whose upper case is "SS") for the letters whose upper
\* case is longer than one character.
WhiteSpace == {" ", "\t"}

SHARP_S == "U+00DF"

RECURSIVE Concat(_)
Concat(ss) == IF ss = <<>> THEN <<>> ELSE Head(ss) \o Concat(Tail(ss))

\* String.prototype.toUpperCase / toLowerCase on one character
UpperChar(c) ==
  IF c = "s" THEN <<"S">>
  ELSE IF c = SHARP_S THEN <<"S", "S">>
  ELSE <<c>>

LowerChar(c) == IF c = "S" THEN <<"s">> ELSE <<c>>

toUpperCase(s) == Concat([i \in 1..Len(s) |-> UpperChar(s[i])])

toLowerCase(s) == Concat([i \in 1..Len(s) |-> LowerChar(s[i])])

\* s.charAt(0): the first character, or the empty string
charAt0(s) == IF s = <<>> THEN <<>> ELSE <<Head(s)>>

\* s.slice(1)
slice1(s) == IF s = <<>> THEN <<>> ELSE Tail(s)

\* s.replace(/\s+/g, ' ')
RECURSIVE DropSpaces(_)
DropSpaces(s) ==
  IF s # <<>> /\ Head(s) \in WhiteSpace THEN DropSpaces(Tail(s)) ELSE s

RECURSIVE replaceSpaceRuns(_)
replaceSpaceRuns(s) ==
  IF s = <<>> THEN <<>>
  ELSE IF Head(s) \in WhiteSpace
       THEN <<" ">> \o replaceSpaceRuns(DropSpaces(Tail(s)))
       ELSE <<Head(s)>> \o replaceSpaceRuns(Tail(s))

\* s.trim()
RECURSIVE DropSpacesEnd(_)
DropSpacesEnd(s) ==
  IF s # <<>> /\ s[Len(s)] \in WhiteSpace
  THEN DropSpacesEnd(SubSeq(s, 1, Len(s) - 1))
  ELSE s

trim(s) == DropSpacesEnd(DropSpaces(s))

\* s.split(sep) for a one-character separator: never empty, "" gives [""]
RECURSIVE split(_, _)
split(s, sep) ==
  IF \E i \in 1..Len(s) : s[i] = sep
  THEN LET i == CHOOSE k \in 1..Len(s) :
                  s[k] = sep /\ \A j \in 1..(k - 1) : s[j] # sep
       IN  <<SubSeq(s, 1, i - 1)>> \o split(SubSeq(s, i + 1, Len(s)), sep)
  ELSE <<s>>

\* parts.join(sep)
RECURSIVE join(_, _)
join(parts, sep) ==
  IF parts = <<>> THEN <<>>
  ELSE IF Len(parts) = 1 THEN parts[1]
  ELSE parts[1] \o sep \o join(Tail(parts), sep)

\* s.startsWith(p)
startsWith(s, p) == Len(s) >= Len(p) /\ SubSeq(s, 1, Len(p)) = p

\* ------------------------------------------------- title optimization
\* word => word.charAt(0).toUpperCase() + word.slice(1).toLowerCase()
TitleCaseWord(word) == toUpperCase(charAt0(word)) \o toLowerCase(slice1(word))

\* OptimizedTitle without the trim
OptimizedTitle_NoTrim(originalTitle) ==
  LET words == split(replaceSpaceRuns(originalTitle), " ")
  IN  join([i \in 1..Len(words) |-> TitleCaseWord(words[i])], <<" ">>)

OptimizedTitle(originalTitle) ==
  LET words == split(trim(replaceSpaceRuns(originalTitle)), " ")
  IN  join([i \in 1..Len(words) |-> TitleCaseWord(words[i])], <<" ">>)

\* ------------------------------------------------- inventory tagging
\* An absent field is <<>> and a present one <<value>>.
\* (v.inventory_quantity || 0)
QuantityOrZero(v) ==
  IF v.inventory_quantity = <<>> THEN 0 ELSE v.inventory_quantity[1]

RECURSIVE TotalInventory(_)
TotalInventory(variants) ==
  IF variants = <<>> THEN 0
  ELSE TotalInventory(SubSeq(variants, 1, Len(variants) - 1))
       + QuantityOrZero(variants[Len(variants)])

STOCK_PREFIX == <<"s", "t", "o", "c", "k", "-">>
STOCK_OUT == STOCK_PREFIX \o <<"o", "u", "t">>
STOCK_LOW == STOCK_PREFIX \o <<"l", "o", "w">>
STOCK_AVAILABLE == STOCK_PREFIX \o <<"a", "v", "a", "i", "l", "a", "b", "l", "e">>

\* parts.filter(t => !t.startsWith('stock-'))
RECURSIVE filterNotStock(_)
filterNotStock(parts) ==
  IF parts = <<>> THEN <<>>
  ELSE (IF ~startsWith(Head(parts), STOCK_PREFIX) THEN <<Head(parts)>> ELSE <<>>)
       \o filterNotStock(Tail(parts))

\* StockTag with the low-stock test off by one (<= 10)
StockTag_OffByOne(totalInventory) ==
  IF totalInventory = 0 THEN STOCK_OUT
  ELSE IF totalInventory <= LOW_STOCK THEN STOCK_LOW
  ELSE STOCK_AVAILABLE

StockTag(totalInventory) ==
  IF totalInventory = 0 THEN STOCK_OUT
  ELSE IF totalInventory < LOW_STOCK THEN STOCK_LOW
  ELSE STOCK_AVAILABLE

\* TrimmedTags without the trim
TrimmedTags_NoTrim(tags) ==
  LET parts == split(tags, ",")
  IN  [i \in 1..Len(parts) |-> parts[i]]

TrimmedTags(tags) ==
  LET parts == split(tags, ",")
  IN  [i \in 1..Len(parts) |-> trim(parts[i])]

NewTags(product) ==
  Append(filterNotStock(TrimmedTags(product.tags)),
         StockTag(TotalInventory(product.variants)))

UpdatedTags(product) == join(NewTags(product), <<",", " ">>)

\* ------------------------------------------------- SEO descriptions
\* The pieces of the template literal of generateSEODescriptions.
SEO_SHOP ==
  <<"S", "h", "o", "p", " ">>
SEO_AT ==
  <<" ", "a", "t", " ", "T", "e", "c", "h", "H", "i", "v", "e", ".", " ">>
SEO_CATEGORY ==
  <<"C", "a", "t", "e", "g", "o", "r", "y", ":", " ">>
SEO_BRAND ==
  <<"B", "r", "a", "n", "d", ":", " ">>
SEO_SUFFIX ==
  <<" ", "F", "a", "s", "t", " ", "s", "h", "i", "p", "p", "i", "n", "g",
    " ", "a", "n", "d", " ", "g", "r", "e", "a", "t", " ", "p", "r", "i",
    "c", "e", "s", "!">>

\* product.product_type ? `Category: ${product.product_type}.` : ''
CategoryClause(product) ==
  IF product.product_type # <<>>
  THEN SEO_CATEGORY \o product.product_type \o <<".">>
  ELSE <<>>

\* product.vendor ? `Brand: ${product.vendor}.` : ''
BrandClause(product) ==
  IF product.vendor # <<>> THEN SEO_BRAND \o product.vendor \o <<".">> ELSE <<>>

SeoDescription(product) ==
  SEO_SHOP \o product.title \o SEO_AT \o CategoryClause(product) \o <<" ">>
  \o BrandClause(product) \o SEO_SUFFIX

\* NeedsDescription with the length test off by one (<= 50)
NeedsDescription_OffByOne(product) ==
  \/ product.body_html = <<>>
  \/ Len(product.body_html[1]) <= SEO_MIN_LENGTH

\* !product.body_html || product.body_html.length < 50
NeedsDescription(product) ==
  \/ product.body_html = <<>>
  \/ Len(product.body_html[1]) < SEO_MIN_LENGTH

\* ------------------------------------------------------------- state
VARIABLES
  cfg,             \* SHOPIFY_STORE, SHOPIFY_ACCESS_TOKEN: set (truthy) or not
  listening,       \* the app.listen callback has run
  automationLogs,  \* the in-memory activity log, newest first
  inserted,        \* history: every entry given to logActivity, oldest first
  catalog,         \* the products held by the upstream store, in list order
  calls,           \* history: every upstream call issued, in issue order
  runs,            \* the invocations of the automation routines
  reqs,            \* the HTTP requests that reached the upstream API
  out              \* the HTTP response sent by the last step, if any

vars == <<cfg, listening, automationLogs, inserted, catalog, calls, runs, reqs, out>>

\* error.message of a failed upstream call
ErrorMessages == {"timeout of 0ms exceeded", "Request failed with status code 429"}

NoResponse == [ep |-> "none", to |-> 0, status |-> 0, body |-> <<>>]

\* The response to a request; `to` is the request's index in reqs, 0 for a
\* handler that never awaits.
Response(ep, to, status, body) ==
  [ep |-> ep, to |-> to, status |-> status, body |-> body]

\* !SHOPIFY_STORE || !SHOPIFY_ACCESS_TOKEN
NotConfigured == ~cfg.store \/ ~cfg.token

\* ------------------------------------------------------ activity log
\* The entry of logActivity; its timestamp (a wall clock reading that no
\* code reads) is left out.
Entry(action, details, status) ==
  [action |-> action, details |-> details, status |-> status]

\* logActivity without the eviction
logActivity_NoPop(logs, entry) == <<entry>> \o logs

\* logActivity inserting at the back (push) and evicting the front (shift)
logActivity_Push(logs, entry) ==
  LET pushed == Append(logs, entry)
  IN  IF Len(pushed) > LOG_CAP THEN Tail(pushed) ELSE pushed

\* automationLogs.unshift(entry); if (automationLogs.length > 100) automationLogs.pop()
logActivity(logs, entry) ==
  LET unshifted == <<entry>> \o logs
  IN  IF Len(unshifted) > LOG_CAP
      THEN SubSeq(unshifted, 1, Len(unshifted) - 1)
      ELSE unshifted

\* the calls of logActivity made by one step, in order
RECURSIVE logAll(_, _)
logAll(logs, entries) ==
  IF entries = <<>> THEN logs
  ELSE logAll(logActivity(logs, Head(entries)), Tail(entries))

Logged(entries) ==
  /\ automationLogs' = logAll(automationLogs, entries)
  /\ inserted' = inserted \o entries

\* ------------------------------------------------------ upstream calls
LIST_PATH == <<"/products.json?limit=250">>

ProductPath(id) == <<"/products/", id, ".json">>

NoBody == [none |-> TRUE]

\* A call issued by a run or a request; answer is "pending" until the store
\* answers, then "ok" or the message of the failure.
Call(by, method, path, body) ==
  [by |-> by, method |-> method, path |-> path, body |-> body,
   answer |-> "pending"]

\* the calls once the call that `by` awaits is answered
Answered(by, answer) ==
  LET k == CHOOSE n \in 1..Len(calls) :
             calls[n].by = by /\ calls[n].answer = "pending"
  IN  [calls EXCEPT ![k].answer = answer]

HasProduct(id) == \E k \in 1..Len(catalog) : catalog[k].id = id

ProductOf(id) == catalog[CHOOSE k \in 1..Len(catalog) : catalog[k].id = id]

\* the product after the store applied { product: fields }
Updated(p, fields) ==
  [f \in DOMAIN p |-> IF f \in DOMAIN fields THEN fields[f] ELSE p[f]]

\* the catalog after a successful PUT /products/{id}.json
CatalogAfterPut(id, fields) ==
  [k \in 1..Len(catalog) |->
     IF catalog[k].id = id THEN Updated(catalog[k], fields) ELSE catalog[k]]

\* ------------------------------------------------------ the routines
Routines == {"optimizeTitles", "updateInventoryTags", "generateSEODescriptions"}

\* the condition under which a routine writes a product back
NeedsWrite(routine, product) ==
  CASE routine = "optimizeTitles" ->
         product.title # OptimizedTitle(product.title)
    [] routine = "updateInventoryTags" ->
         product.tags # UpdatedTags(product)
    [] routine = "generateSEODescriptions" ->
         NeedsDescription(product)

\* the fields of the write-back
WriteBack(routine, product) ==
  CASE routine = "optimizeTitles" ->
         [title |-> OptimizedTitle(product.title)]
    [] routine = "updateInventoryTags" ->
         [tags |-> UpdatedTags(product)]
    [] routine = "generateSEODescriptions" ->
         [body_html |-> <<SeoDescription(product)>>]

\* the entry logged after a successful write-back
ItemEntry(routine, product) ==
  CASE routine = "optimizeTitles" ->
         Entry("auto_optimize_title",
               <<"%s -> %s", product.title, OptimizedTitle(product.title)>>,
               "success")
    [] routine = "updateInventoryTags" ->
         Entry("auto_inventory_tag",
               <<"Product %s: %s", product.id, UpdatedTags(product)>>, "success")
    [] routine = "generateSEODescriptions" ->
         Entry("auto_seo", <<"Generated description for %s", product.title>>,
               "success")

\* the summary entry logged after the loop
CompleteEntry(routine, count) ==
  CASE routine = "optimizeTitles" ->
         Entry("title_optimization_complete",
               <<"Optimized %s product titles", count>>, "success")
    [] routine = "updateInventoryTags" ->
         Entry("inventory_tagging_complete",
               <<"Updated %s product tags", count>>, "success")
    [] routine = "generateSEODescriptions" ->
         Entry("seo_generation_complete",
               <<"Generated %s SEO descriptions", count>>, "success")

\* the entry logged by the catch block
ErrorEntry(routine, message) ==
  CASE routine = "optimizeTitles" ->
         Entry("title_optimization", <<"%s", message>>, "error")
    [] routine = "updateInventoryTags" ->
         Entry("inventory_tagging", <<"%s", message>>, "error")
    [] routine = "generateSEODescriptions" ->
         Entry("seo_generation", <<"%s", message>>, "error")

\* Invocation without the configuration guard
Invocation_NoGuard(routine, trigger) ==
  [routine |-> routine, trigger |-> trigger, pc |-> "fetching",
   products |-> <<>>, index |-> 0, count |-> 0]

\* A call of a routine runs to its first await: it returns at once without
\* configuration and has issued the product list request otherwise.
Invocation(routine, trigger) ==
  [routine |-> routine, trigger |-> trigger,
   pc |-> IF NotConfigured THEN "returned" ELSE "fetching",
   products |-> <<>>, index |-> 0, count |-> 0]

\* the routines called one after the other by one trigger
Invoke(routines, trigger) ==
  /\ runs' = runs \o [k \in 1..Len(routines) |-> Invocation(routines[k], trigger)]
  /\ calls' = calls \o
       (IF NotConfigured THEN <<>>
        ELSE [k \in 1..Len(routines) |->
                Call(<<"run", Len(runs) + k>>, "GET", LIST_PATH, NoBody)])

\* the first product at or after `from` that the loop writes back, 0 if none
NextWrite(routine, products, from) ==
  IF \E j \in from..Len(products) : NeedsWrite(routine, products[j])
  THEN CHOOSE j \in from..Len(products) :
         /\ NeedsWrite(routine, products[j])
         /\ \A k \in from..(j - 1) : ~NeedsWrite(routine, products[k])
  ELSE 0

\* The for loop of run i continues at product `from` with `count` write-backs
\* done, after logging `entries`: it runs to the next write-back, or to the
\* summary entry after the last product.  cs is the calls issued so far.
Loop(i, cs, products, from, count, entries) ==
  LET routine == runs[i].routine
      j == NextWrite(routine, products, from)
  IN  IF j = 0
      THEN /\ runs' = [runs EXCEPT ![i].pc = "returned", ![i].products = products,
                                   ![i].index = Len(products) + 1,
                                   ![i].count = count]
           /\ calls' = cs
           /\ Logged(Append(entries, CompleteEntry(routine, count)))
      ELSE /\ runs' = [runs EXCEPT ![i].pc = "writing", ![i].products = products,
                                   ![i].index = j, ![i].count = count]
           /\ calls' = Append(cs, Call(<<"run", i>>, "PUT",
                                          ProductPath(products[j].id),
                                          WriteBack(routine, products[j])))
           /\ Logged(entries)

\* the product list request of run i is answered
RoutineFetched(i) ==
  /\ runs[i].pc = "fetching"
  /\ Loop(i, Answered(<<"run", i>>, "ok"), catalog, 1, 0, <<>>)
  /\ out' = NoResponse
  /\ UNCHANGED <<cfg, listening, catalog, reqs>>

\* RoutineFailed issuing the failed call again
RoutineFailed_Retry(i, message) ==
  /\ runs[i].pc \in {"fetching", "writing"}
  /\ LET k == CHOOSE n \in 1..Len(calls) :
                 calls[n].by = <<"run", i>> /\ calls[n].answer = "pending"
     IN  calls' = Append(Answered(<<"run", i>>, message),
                         Call(<<"run", i>>, calls[k].method, calls[k].path,
                              calls[k].body))
  /\ out' = NoResponse
  /\ UNCHANGED <<cfg, listening, automationLogs, inserted, catalog, runs, reqs>>

\* RoutineFailed with a catch block that logs nothing
RoutineFailed_Silent(i, message) ==
  /\ runs[i].pc \in {"fetching", "writing"}
  /\ runs' = [runs EXCEPT ![i].pc = "returned"]
  /\ calls' = Answered(<<"run", i>>, message)
  /\ out' = NoResponse
  /\ UNCHANGED <<cfg, listening, automationLogs, inserted, catalog, reqs>>

\* an upstream call of run i fails: the catch block logs and the call returns
RoutineFailed(i, message) ==
  /\ runs[i].pc \in {"fetching", "writing"}
  /\ runs' = [runs EXCEPT ![i].pc = "returned"]
  /\ calls' = Answered(<<"run", i>>, message)
  /\ Logged(<<ErrorEntry(runs[i].routine, message)>>)
  /\ out' = NoResponse
  /\ UNCHANGED <<cfg, listening, catalog, reqs>>

\* the write-back of run i is answered
RoutineWritten(i) ==
  LET r == runs[i]
      product == r.products[r.index]
  IN  /\ r.pc = "writing"
      /\ HasProduct(product.id)
      /\ catalog' = CatalogAfterPut(product.id, WriteBack(r.routine, product))
      /\ Loop(i, Answered(<<"run", i>>, "ok"), r.products, r.index + 1, r.count + 1,
              <<ItemEntry(r.routine, product)>>)
      /\ out' = NoResponse
      /\ UNCHANGED <<cfg, listening, reqs>>

\* ------------------------------------------------------ scheduled tasks
CronDetails(routine) ==
  CASE routine = "optimizeTitles" -> "Running daily title optimization"
    [] routine = "updateInventoryTags" -> "Running inventory tag update"
    [] routine = "generateSEODescriptions" -> "Running weekly SEO generation"

\* a cron.schedule callback that calls the routine without logging
Scheduled_NoLog(routine) ==
  /\ listening
  /\ Invoke(<<routine>>, "cron")
  /\ out' = NoResponse
  /\ UNCHANGED <<cfg, listening, automationLogs, inserted, catalog, reqs>>

\* a cron.schedule callback
Scheduled(routine) ==
  /\ listening
  /\ Logged(<<Entry("scheduled_task", <<CronDetails(routine)>>, "success")>>)
  /\ Invoke(<<routine>>, "cron")
  /\ out' = NoResponse
  /\ UNCHANGED <<cfg, listening, catalog, reqs>>

\* ------------------------------------------------------ manual triggers
StartedMessage(routine) ==
  CASE routine = "optimizeTitles" -> "Title optimization started"
    [] routine = "updateInventoryTags" -> "Inventory tag update started"
    [] routine = "generateSEODescriptions" -> "SEO generation started"

TriggerPath(routine) ==
  CASE routine = "optimizeTitles" -> "POST /api/automation/optimize-titles"
    [] routine = "updateInventoryTags" -> "POST /api/automation/update-inventory-tags"
    [] routine = "generateSEODescriptions" -> "POST /api/automation/generate-seo"

\* Trigger refusing to start a routine while an invocation is in progress
Trigger_Exclusive(routine) ==
  /\ listening
  /\ \A i \in 1..Len(runs) : runs[i].pc = "returned"
  /\ Invoke(<<routine>>, "manual")
  /\ out' = Response(TriggerPath(routine), 0, 200, [message |-> StartedMessage(routine)])
  /\ UNCHANGED <<cfg, listening, automationLogs, inserted, catalog, reqs>>

\* POST /api/automation/optimize-titles, update-inventory-tags, generate-seo
Trigger(routine) ==
  /\ listening
  /\ Invoke(<<routine>>, "manual")
  /\ out' = Response(TriggerPath(routine), 0, 200, [message |-> StartedMessage(routine)])
  /\ UNCHANGED <<cfg, listening, automationLogs, inserted, catalog, reqs>>

\* run-all leaving generateSEODescriptions out
RunAll_NoSeo ==
  /\ listening
  /\ Logged(<<Entry("manual_trigger", <<"Running all automation tasks">>, "success")>>)
  /\ Invoke(<<"optimizeTitles", "updateInventoryTags">>, "run-all")
  /\ out' = Response("POST /api/automation/run-all", 0, 200,
                     [message |-> "All automation tasks started"])
  /\ UNCHANGED <<cfg, listening, catalog, reqs>>

\* POST /api/automation/run-all
RunAll ==
  /\ listening
  /\ Logged(<<Entry("manual_trigger", <<"Running all automation tasks">>, "success")>>)
  /\ Invoke(<<"optimizeTitles", "updateInventoryTags", "generateSEODescriptions">>,
            "run-all")
  /\ out' = Response("POST /api/automation/run-all", 0, 200,
                     [message |-> "All automation tasks started"])
  /\ UNCHANGED <<cfg, listening, catalog, reqs>>

\* GET /api/automation/logs served only while no routine is in progress
GetLogs_Blocked ==
  /\ listening
  /\ \A i \in 1..Len(runs) : runs[i].pc = "returned"
  /\ out' = Response("GET /api/automation/logs", 0, 200, [logs |-> automationLogs])
  /\ UNCHANGED <<cfg, listening, automationLogs, inserted, catalog, calls, runs, reqs>>

\* GET /api/automation/logs
GetLogs ==
  /\ listening
  /\ out' = Response("GET /api/automation/logs", 0, 200, [logs |-> automationLogs])
  /\ UNCHANGED <<cfg, listening, automationLogs, inserted, catalog, calls, runs, reqs>>

\* GET /health (the timestamp of the body is left out)
Health ==
  /\ listening
  /\ out' = Response("GET /health", 0, 200,
                     [status |-> "healthy",
                      shopifyConfigured |-> (cfg.store /\ cfg.token)])
  /\ UNCHANGED <<cfg, listening, automationLogs, inserted, catalog, calls, runs, reqs>>

\* the app.listen callback
ServerStart ==
  /\ ~listening
  /\ listening' = TRUE
  /\ Logged(<<Entry("server_start", <<"Server started on port %s">>, "success")>>)
  /\ out' = NoResponse
  /\ UNCHANGED <<cfg, catalog, calls, runs, reqs>>

\* ------------------------------------------------------ product endpoints
NOT_CONFIGURED ==
  "Shopify not configured. Set SHOPIFY_STORE and SHOPIFY_ACCESS_TOKEN env vars."

\* A request that awaits the upstream API.  productIds is <<>> when the body
\* has no productIds and <<ids>> otherwise.
Request(ep, id, productIds, fields, pc) ==
  [ep |-> ep, id |-> id, productIds |-> productIds, fields |-> fields,
   pc |-> pc, index |-> 0, results |-> <<>>]

\* The store answers a call with success only when the service holds its
\* address and token; a call can fail at any time.
Accepts == ~NotConfigured

\* GET /api/products without the configuration guard
GetProducts_NoGuard ==
  /\ listening
  /\ reqs' = Append(reqs, Request("GET /api/products", 0, <<>>, NoBody,
                                  "awaiting"))
  /\ calls' = Append(calls, Call(<<"req", Len(reqs) + 1>>, "GET",
                                 LIST_PATH, NoBody))
  /\ out' = NoResponse
  /\ UNCHANGED <<cfg, listening, automationLogs, inserted, catalog, runs>>

\* GET /api/products
GetProducts ==
  /\ listening
  /\ IF NotConfigured
     THEN /\ out' = Response("GET /api/products", 0, 200,
                             [message |-> NOT_CONFIGURED, products |-> <<>>])
          /\ UNCHANGED <<reqs, calls>>
     ELSE /\ reqs' = Append(reqs, Request("GET /api/products", 0, <<>>, NoBody,
                                          "awaiting"))
          /\ calls' = Append(calls, Call(<<"req", Len(reqs) + 1>>, "GET",
                                         LIST_PATH, NoBody))
          /\ out' = NoResponse
  /\ UNCHANGED <<cfg, listening, automationLogs, inserted, catalog, runs>>

GetProductsAnswered(j) ==
  /\ reqs[j].ep = "GET /api/products" /\ reqs[j].pc = "awaiting"
  /\ Accepts
  /\ Logged(<<Entry("fetch_products", <<"Fetched %s products", Len(catalog)>>,
                    "success")>>)
  /\ out' = Response("GET /api/products", j, 200, [products |-> catalog])
  /\ reqs' = [reqs EXCEPT ![j].pc = "done"]
  /\ UNCHANGED <<cfg, listening, catalog, runs>>
  /\ calls' = Answered(<<"req", j>>, "ok")

GetProductsFailed(j, message) ==
  /\ reqs[j].ep = "GET /api/products" /\ reqs[j].pc = "awaiting"
  /\ Logged(<<Entry("fetch_products", <<"%s", message>>, "error")>>)
  /\ out' = Response("GET /api/products", j, 500, [error |-> message])
  /\ reqs' = [reqs EXCEPT ![j].pc = "done"]
  /\ UNCHANGED <<cfg, listening, catalog, runs>>
  /\ calls' = Answered(<<"req", j>>, message)

\* GET /api/products/:id
GetProduct(id) ==
  /\ listening
  /\ reqs' = Append(reqs, Request("GET /api/products/:id", id, <<>>, NoBody,
                                  "awaiting"))
  /\ calls' = Append(calls, Call(<<"req", Len(reqs) + 1>>, "GET",
                                 ProductPath(id), NoBody))
  /\ out' = NoResponse
  /\ UNCHANGED <<cfg, listening, automationLogs, inserted, catalog, runs>>

GetProductAnswered(j) ==
  /\ reqs[j].ep = "GET /api/products/:id" /\ reqs[j].pc = "awaiting"
  /\ Accepts /\ HasProduct(reqs[j].id)
  /\ out' = Response("GET /api/products/:id", j, 200,
                     [product |-> ProductOf(reqs[j].id)])
  /\ reqs' = [reqs EXCEPT ![j].pc = "done"]
  /\ UNCHANGED <<cfg, listening, automationLogs, inserted, catalog, runs>>
  /\ calls' = Answered(<<"req", j>>, "ok")

GetProductFailed(j, message) ==
  /\ reqs[j].ep = "GET /api/products/:id" /\ reqs[j].pc = "awaiting"
  /\ out' = Response("GET /api/products/:id", j, 500, [error |-> message])
  /\ reqs' = [reqs EXCEPT ![j].pc = "done"]
  /\ UNCHANGED <<cfg, listening, automationLogs, inserted, catalog, runs>>
  /\ calls' = Answered(<<"req", j>>, message)

\* PUT /api/products/:id
PutProduct(id, fields) ==
  /\ listening
  /\ reqs' = Append(reqs, Request("PUT /api/products/:id", id, <<>>, fields,
                                  "awaiting"))
  /\ calls' = Append(calls, Call(<<"req", Len(reqs) + 1>>, "PUT",
                                 ProductPath(id), fields))
  /\ out' = NoResponse
  /\ UNCHANGED <<cfg, listening, automationLogs, inserted, catalog, runs>>

PutProductAnswered(j) ==
  /\ reqs[j].ep = "PUT /api/products/:id" /\ reqs[j].pc = "awaiting"
  /\ Accepts /\ HasProduct(reqs[j].id)
  /\ catalog' = CatalogAfterPut(reqs[j].id, reqs[j].fields)
  /\ Logged(<<Entry("update_product", <<"Updated product %s", reqs[j].id>>,
                    "success")>>)
  /\ out' = Response("PUT /api/products/:id", j, 200,
                     [product |-> Updated(ProductOf(reqs[j].id), reqs[j].fields)])
  /\ reqs' = [reqs EXCEPT ![j].pc = "done"]
  /\ UNCHANGED <<cfg, listening, runs>>
  /\ calls' = Answered(<<"req", j>>, "ok")

PutProductFailed(j, message) ==
  /\ reqs[j].ep = "PUT /api/products/:id" /\ reqs[j].pc = "awaiting"
  /\ Logged(<<Entry("update_product", <<"%s", message>>, "error")>>)
  /\ out' = Response("PUT /api/products/:id", j, 500, [error |-> message])
  /\ reqs' = [reqs EXCEPT ![j].pc = "done"]
  /\ UNCHANGED <<cfg, listening, catalog, runs>>
  /\ calls' = Answered(<<"req", j>>, message)

\* ------------------------------------------------------ bulk edit
\* productIds || []
IdsOf(productIds) == IF productIds = <<>> THEN <<>> ELSE productIds[1]

\* results.filter(r => r.status === 'success').length
Successful(results) ==
  Cardinality({k \in 1..Len(results) : results[k].status = "success"})

\* { results, total: productIds?.length || 0, successful }
BulkBody(productIds, results) ==
  [results |-> results,
   total |-> IF productIds = <<>> THEN 0 ELSE Len(productIds[1]),
   successful |-> Successful(results)]

\* The for loop of request j goes on after the attempt at position `done`:
\* it issues the update of the next id, or responds after the last one.
BulkLoop(j, cs, productIds, done, results) ==
  LET ids == IdsOf(productIds)
  IN  IF done < Len(ids)
      THEN /\ reqs' = [reqs EXCEPT ![j].pc = "awaiting", ![j].index = done + 1,
                                   ![j].results = results]
           /\ calls' = Append(cs, Call(<<"req", j>>, "PUT",
                                          ProductPath(ids[done + 1]),
                                          reqs[j].fields))
           /\ out' = NoResponse
      ELSE /\ reqs' = [reqs EXCEPT ![j].pc = "done", ![j].index = done + 1,
                                   ![j].results = results]
           /\ calls' = cs
           /\ out' = Response("POST /api/bulk-edit", j, 200,
                              BulkBody(productIds, results))

\* POST /api/bulk-edit
BulkEdit(productIds, updates) ==
  /\ listening
  /\ LET j == Len(reqs) + 1
         new == Request("POST /api/bulk-edit", 0, productIds, updates, "awaiting")
     IN  IF IdsOf(productIds) = <<>>
         THEN /\ reqs' = Append(reqs, [new EXCEPT !.pc = "done", !.index = 1])
              /\ calls' = calls
              /\ out' = Response("POST /api/bulk-edit", j, 200,
                                 BulkBody(productIds, <<>>))
         ELSE /\ reqs' = Append(reqs, [new EXCEPT !.index = 1])
              /\ calls' = Append(calls, Call(<<"req", j>>, "PUT",
                                             ProductPath(IdsOf(productIds)[1]),
                                             updates))
              /\ out' = NoResponse
  /\ UNCHANGED <<cfg, listening, automationLogs, inserted, catalog, runs>>

BulkAnswered(j) ==
  LET r == reqs[j]
      id == IdsOf(r.productIds)[r.index]
  IN  /\ r.ep = "POST /api/bulk-edit" /\ r.pc = "awaiting"
      /\ Accepts /\ HasProduct(id)
      /\ catalog' = CatalogAfterPut(id, r.fields)
      /\ Logged(<<Entry("bulk_update", <<"Updated product %s", id>>, "success")>>)
      /\ BulkLoop(j, Answered(<<"req", j>>, "ok"), r.productIds, r.index,
                  Append(r.results, [id |-> id, status |-> "success"]))
      /\ UNCHANGED <<cfg, listening, runs>>

\* BulkFailed with the failure ending the request (no try inside the loop)
BulkFailed_Abort(j, message) ==
  LET r == reqs[j]
      id == IdsOf(r.productIds)[r.index]
      results == Append(r.results,
                        [id |-> id, status |-> "error", error |-> message])
  IN  /\ r.ep = "POST /api/bulk-edit" /\ r.pc = "awaiting"
      /\ Logged(<<Entry("bulk_update", <<"Failed to update %s: %s", id, message>>,
                        "error")>>)
      /\ reqs' = [reqs EXCEPT ![j].pc = "done", ![j].results = results]
      /\ calls' = Answered(<<"req", j>>, message)
      /\ out' = Response("POST /api/bulk-edit", j, 200,
                         BulkBody(r.productIds, results))
      /\ UNCHANGED <<cfg, listening, catalog, runs>>

BulkFailed(j, message) ==
  LET r == reqs[j]
      id == IdsOf(r.productIds)[r.index]
  IN  /\ r.ep = "POST /api/bulk-edit" /\ r.pc = "awaiting"
      /\ Logged(<<Entry("bulk_update", <<"Failed to update %s: %s", id, message>>,
                        "error")>>)
      /\ BulkLoop(j, Answered(<<"req", j>>, message), r.productIds, r.index,
                  Append(r.results,
                         [id |-> id, status |-> "error", error |-> message]))
      /\ UNCHANGED <<cfg, listening, catalog, runs>>

\* GET /
Root ==
  /\ listening
  /\ out' = Response("GET /", 0, 200,
                     [name |-> "TechHive Automation", version |-> "2.0.0",
                      shopifyConfigured |-> (cfg.store /\ cfg.token)])
  /\ UNCHANGED <<cfg, listening, automationLogs, inserted, catalog, calls, runs, reqs>>

\* ------------------------------------------------------ initial states
Product(id, title, tags, body_html, product_type, vendor, variants) ==
  [id |-> id, title |-> title, tags |-> tags, body_html |-> body_html,
   product_type |-> product_type, vendor |-> vendor, variants |-> variants]

Variant(quantity) == [inventory_quantity |-> quantity]

\* a description of n characters
Text(n) == [k \in 1..n |-> "x"]

\* every routine writes this product back
ProductA ==
  Product(1, <<" ", "s">>, <<>>, <<>>, <<>>, <<"S">>, <<Variant(<<0>>)>>)

\* only optimizeTitles writes this product back
ProductB ==
  Product(2, <<"s", "S">>, STOCK_LOW, <<Text(SEO_MIN_LENGTH)>>, <<"s">>, <<>>,
          <<Variant(<<5>>), Variant(<<>>)>>)

Catalogs == {<<ProductA, ProductB>>, <<ProductB, ProductA>>}

\* The state once the module is loaded: an empty log, nothing in flight.  The
\* environment fixes the two secrets and the store's products.
Start(catalogs) ==
  /\ cfg \in [store : BOOLEAN, token : BOOLEAN]
  /\ listening = FALSE
  /\ automationLogs = <<>>
  /\ inserted = <<>>
  /\ catalog \in catalogs
  /\ calls = <<>>
  /\ runs = <<>>
  /\ reqs = <<>>
  /\ out = NoResponse

Init == Start(Catalogs)

\* the answers of the upstream API to the routines
RoutineSteps ==
  \/ \E i \in 1..Len(runs) : RoutineFetched(i)
  \/ \E i \in 1..Len(runs) : RoutineWritten(i)
  \/ \E i \in 1..Len(runs), m \in ErrorMessages : RoutineFailed(i, m)

\* no routine is waiting for the upstream API
Quiet == \A i \in 1..Len(runs) : runs[i].pc = "returned"

\* The automation: schedules, manual triggers and the routines they start.
\* A single routine starts while no other call is in flight; run-all, explored
\* as the first trigger, has its three in flight together.
Next ==
  \/ ServerStart
  \/ \E r \in Routines : Quiet /\ Len(runs) < MaxRuns /\ Scheduled(r)
  \/ \E r \in Routines : Quiet /\ Len(runs) < MaxRuns /\ Trigger(r)
  \/ runs = <<>> /\ RunAll
  \/ RoutineSteps

Spec == Init /\ [][Next]_vars

\* ------------------------------------------------------ the log at its cap
\* Schedules firing while the upstream API never answers (or without
\* configuration), and reads of the log.  The inventory schedule fires only
\* among the first entries, the ones the cap evicts.
InitLog == Start({<<ProductA, ProductB>>})

NextLog ==
  \/ ServerStart
  \/ Len(inserted) < MaxInserts /\ Scheduled("optimizeTitles")
  \/ Len(inserted) <= VariedPrefix /\ Scheduled("updateInventoryTags")
  \/ GetLogs

SpecLog == InitLog /\ [][NextLog]_vars

Min(a, b) == IF a < b THEN a ELSE b

Reverse(s) == [k \in 1..Len(s) |-> s[Len(s) + 1 - k]]

\* the last n elements of s
LastN(s, n) == SubSeq(s, Len(s) - n + 1, Len(s))

\* C1: in every reachable state the activity log holds at most 100 entries.
C1_LogAtMostCap == Len(automationLogs) <= LOG_CAP

\* more entries were inserted than the log can hold
C1_Witness == Len(inserted) > LOG_CAP /\ Len(automationLogs) = LOG_CAP

\* C2: after n insertions the log is the last min(n, 100) inserted entries,
\* newest first, and GET /api/automation/logs responds with that sequence.
C2_NewestFirst ==
  /\ automationLogs = Reverse(LastN(inserted, Min(Len(inserted), LOG_CAP)))
  /\ out.ep = "GET /api/automation/logs" =>
       /\ out.status = 200
       /\ out.body.logs = Reverse(LastN(inserted, Min(Len(inserted), LOG_CAP)))

\* the log is read after the oldest entry was evicted
C2_Witness ==
  /\ out.ep = "GET /api/automation/logs"
  /\ Len(inserted) = LOG_CAP + 1
  /\ \A k \in 1..Len(automationLogs) : automationLogs[k] # inserted[1]
  /\ automationLogs[LOG_CAP] = inserted[2]

\* the calls issued by one run or request, in issue order
RECURSIVE CallsOf(_, _)
CallsOf(cs, by) ==
  IF cs = <<>> THEN <<>>
  ELSE (IF Head(cs).by = by THEN <<Head(cs)>> ELSE <<>>) \o CallsOf(Tail(cs), by)

\* ------------------------------------------------------ one bulk edit
\* the ids a request names: two products of the store and an unknown one
RequestIds == {1, 2, 3}

\* the productIds of a request body: absent, or a sequence of ids
BulkInputs ==
  {<<>>} \cup {<<ids>> : ids \in UNION {[1..n -> RequestIds] : n \in 0..MaxBulkIds}}

BulkUpdates == [vendor |-> <<"s">>]

InitBulk == Start({<<ProductA, ProductB>>})

NextBulk ==
  \/ ServerStart
  \/ \E productIds \in BulkInputs : reqs = <<>> /\ BulkEdit(productIds, BulkUpdates)
  \/ \E j \in 1..Len(reqs) : BulkAnswered(j)
  \/ \E j \in 1..Len(reqs), m \in ErrorMessages : BulkFailed(j, m)

SpecBulk == InitBulk /\ [][NextBulk]_vars

\* C3: a bulk edit attempts every id once, in input order, whatever fails; its
\* results hold one entry per id in that order, a failed entry with status
\* error and the upstream message, a successful one without error; total is
\* the number of ids and successful the number of updates that succeeded.
C3_BulkEditIsolated ==
  \A j \in 1..Len(reqs) :
    reqs[j].ep = "POST /api/bulk-edit" =>
      LET r == reqs[j]
          ids == IF r.productIds = <<>> THEN <<>> ELSE r.productIds[1]
          mine == CallsOf(calls, <<"req", j>>)
      IN  /\ Len(mine) <= Len(ids)
          /\ \A k \in 1..Len(mine) :
               /\ mine[k].method = "PUT"
               /\ mine[k].path = <<"/products/", ids[k], ".json">>
               /\ k < Len(mine) => mine[k].answer # "pending"
          /\ r.pc = "awaiting" => mine # <<>> /\ mine[Len(mine)].answer = "pending"
          /\ r.pc = "done" =>
               /\ Len(mine) = Len(ids)
               /\ Len(r.results) = Len(ids)
               /\ \A k \in 1..Len(ids) :
                    /\ mine[k].answer # "pending"
                    /\ r.results[k].id = ids[k]
                    /\ IF mine[k].answer = "ok"
                       THEN /\ DOMAIN r.results[k] = {"id", "status"}
                            /\ r.results[k].status = "success"
                       ELSE /\ DOMAIN r.results[k] = {"id", "status", "error"}
                            /\ r.results[k].status = "error"
                            /\ r.results[k].error = mine[k].answer
          /\ (out.ep = "POST /api/bulk-edit" /\ out.to = j) =>
               /\ r.pc = "done"
               /\ out.status = 200
               /\ out.body.results = r.results
               /\ out.body.total = Len(ids)
               /\ out.body.successful =
                    Cardinality({k \in 1..Len(mine) : mine[k].answer = "ok"})

\* three ids, the second update failed, the other two succeeded
C3_Witness ==
  \E j \in 1..Len(reqs) :
    /\ reqs[j].ep = "POST /api/bulk-edit" /\ reqs[j].pc = "done"
    /\ Len(IdsOf(reqs[j].productIds)) = 3
    /\ LET mine == CallsOf(calls, <<"req", j>>)
       IN  /\ Len(mine) = 3
           /\ mine[1].answer = "ok" /\ mine[3].answer = "ok"
           /\ mine[2].answer \in ErrorMessages
    /\ out.ep = "POST /api/bulk-edit" /\ out.to = j
    /\ out.body.total = 3 /\ out.body.successful = 2

\* ------------------------------------------------------ product requests
InitHttp == Start({<<ProductA, ProductB>>})

\* the fields of a PUT /api/products/:id body
PutFields == [title |-> <<"S">>]

NextHttp ==
  \/ ServerStart
  \/ Len(reqs) < MaxReqs /\ GetProducts
  \/ \E id \in RequestIds : Len(reqs) < MaxReqs /\ GetProduct(id)
  \/ \E id \in RequestIds : Len(reqs) < MaxReqs /\ PutProduct(id, PutFields)
  \/ \E j \in 1..Len(reqs) : GetProductsAnswered(j)
  \/ \E j \in 1..Len(reqs), m \in ErrorMessages : GetProductsFailed(j, m)
  \/ \E j \in 1..Len(reqs) : GetProductAnswered(j)
  \/ \E j \in 1..Len(reqs), m \in ErrorMessages : GetProductFailed(j, m)
  \/ \E j \in 1..Len(reqs) : PutProductAnswered(j)
  \/ \E j \in 1..Len(reqs), m \in ErrorMessages : PutProductFailed(j, m)
  \/ Health
  \/ Root

SpecHttp == InitHttp /\ [][NextHttp]_vars

\* C4: without the store identifier or the access token, GET /api/products
\* responds 200 with an empty product list and a message, and it has issued no
\* upstream call and logged nothing.
C4_UnconfiguredList ==
  (~cfg.store \/ ~cfg.token) =>
    /\ out.ep = "GET /api/products" =>
         /\ out.status = 200
         /\ DOMAIN out.body = {"message", "products"}
         /\ out.body.products = <<>>
         /\ out.body.message # ""
    /\ \A k \in 1..Len(calls) : calls[k].path # <<"/products.json?limit=250">>
    /\ \A k \in 1..Len(inserted) : inserted[k].action # "fetch_products"
    /\ \A j \in 1..Len(reqs) : reqs[j].ep # "GET /api/products"

\* the list was asked for without configuration, after other requests had
\* reached the upstream API
C4_Witness ==
  /\ ~cfg.store \/ ~cfg.token
  /\ out.ep = "GET /api/products"
  /\ calls # <<>>

\* C7: a failure of the upstream call of GET /api/products, GET
\* /api/products/:id or PUT /api/products/:id is answered with HTTP 500
\* carrying the message, and one error entry with that message is logged.
C7_FailureLoggedAndAnswered ==
  \A j \in 1..Len(reqs) :
    LET mine == CallsOf(calls, <<"req", j>>)
    IN  (/\ out.to = j
         /\ reqs[j].ep \in {"GET /api/products", "GET /api/products/:id",
                            "PUT /api/products/:id"}
         /\ mine[1].answer \in ErrorMessages) =>
          /\ out.status = 500
          /\ out.body = [error |-> mine[1].answer]
          /\ inserted # <<>>
          /\ inserted[Len(inserted)].status = "error"
          /\ inserted[Len(inserted)].details = <<"%s", mine[1].answer>>
          /\ automationLogs[1] = inserted[Len(inserted)]

\* C5: without the store identifier or the access token, every call of a
\* routine, from a schedule, a manual trigger or run-all, has returned with no
\* upstream call issued and no log entry of its own.
C5_UnconfiguredRoutinesNoOp ==
  (~cfg.store \/ ~cfg.token) =>
    /\ \A i \in 1..Len(runs) :
         /\ runs[i].pc = "returned"
         /\ CallsOf(calls, <<"run", i>>) = <<>>
    /\ \A k \in 1..Len(inserted) :
         inserted[k].action \in {"server_start", "scheduled_task", "manual_trigger"}
    /\ Cardinality({k \in 1..Len(inserted) : inserted[k].action = "scheduled_task"})
         = Cardinality({i \in 1..Len(runs) : runs[i].trigger = "cron"})

\* without configuration, a routine was called by a schedule and by a manual
\* trigger
C5_Witness ==
  /\ ~cfg.store \/ ~cfg.token
  /\ \E i \in 1..Len(runs), j \in 1..Len(runs) :
       /\ runs[i].trigger = "cron" /\ runs[j].trigger = "manual"
       /\ runs[i].routine # runs[j].routine

\* C6: a failed write-back of one product does not abort the scan: every
\* product of the fetched list that the routine has to write back gets its
\* write-back call before the routine returns.
C6_WriteFailureIsolated ==
  \A i \in 1..Len(runs) :
    (runs[i].pc = "returned" /\ runs[i].products # <<>>) =>
      \A k \in 1..Len(runs[i].products) :
        NeedsWrite(runs[i].routine, runs[i].products[k]) =>
          \E c \in 1..Len(calls) :
            /\ calls[c].by = <<"run", i>>
            /\ calls[c].method = "PUT"
            /\ calls[c].path = <<"/products/", runs[i].products[k].id, ".json">>

\* ------------------------------------------------------ titles
\* the characters of a title
TitleChars == {" ", "\t", "s", "S", SHARP_S}

Titles == UNION {[1..n -> TitleChars] : n \in 0..MaxTitleLen}

\* a configured service and a store of two products, the first with any title
InitTitles ==
  /\ Start({<<[ProductA EXCEPT !.title = t],
              [ProductA EXCEPT !.id = 2, !.title = <<"s", "S">>]>> : t \in Titles})
  /\ ~NotConfigured

\* manual runs of optimizeTitles, one after the other
NextTitles ==
  \/ ServerStart
  \/ Quiet /\ Len(runs) < MaxRuns /\ Trigger("optimizeTitles")
  \/ RoutineSteps

SpecTitles == InitTitles /\ [][NextTitles]_vars

\* C8: title optimization is idempotent: every title that optimizeTitles
\* writes back is left unchanged by the transformation, so a following run
\* does not write it again.
C8_WrittenTitleIsFixedPoint ==
  \A c \in 1..Len(calls) :
    (calls[c].method = "PUT" /\ calls[c].by[1] = "run") =>
      OptimizedTitle(calls[c].body.title) = calls[c].body.title

\* the tokens of a title: its maximal runs of characters that are not white
\* space, in order
RECURSIVE C9_Tokens(_, _)
C9_Tokens(t, token) ==
  IF t = <<>> THEN (IF token = <<>> THEN <<>> ELSE <<token>>)
  ELSE IF Head(t) \in {" ", "\t"}
       THEN (IF token = <<>> THEN <<>> ELSE <<token>>) \o C9_Tokens(Tail(t), <<>>)
       ELSE C9_Tokens(Tail(t), Append(token, Head(t)))

\* a token with its first character in upper case and the rest in lower case
C9_Cased(token) ==
  UpperChar(token[1]) \o Concat([k \in 1..(Len(token) - 1) |-> LowerChar(token[k + 1])])

\* the cased tokens separated by single spaces
RECURSIVE C9_Spaced(_)
C9_Spaced(tokens) ==
  IF tokens = <<>> THEN <<>>
  ELSE IF Len(tokens) = 1 THEN C9_Cased(tokens[1])
  ELSE C9_Cased(tokens[1]) \o <<" ">> \o C9_Spaced(Tail(tokens))

C9_Expected(t) == C9_Spaced(C9_Tokens(t, <<>>))

\* the title, as fetched, of the product that write-back c of a run is for
C9_Original(c) ==
  LET products == runs[calls[c].by[2]].products
      k == CHOOSE n \in 1..Len(products) : products[n].id = calls[c].path[2]
  IN  products[k].title

\* C9: the optimized title is the cased tokens of the title separated by
\* single spaces; optimizeTitles issues one write-back with that title for a
\* product it reaches if and only if it differs from the original title, and
\* logs `original -> optimized` once for every write-back that succeeded.
C9_TitleRule ==
  \A i \in 1..Len(runs) :
    \A k \in 1..Len(runs[i].products) :
      LET r == runs[i]
          t == r.products[k].title
          expected == C9_Expected(t)
          puts == {c \in 1..Len(calls) :
                     /\ calls[c].by = <<"run", i>>
                     /\ calls[c].method = "PUT"
                     /\ calls[c].path = <<"/products/", r.products[k].id, ".json">>}
      IN  /\ \A c \in puts : calls[c].body = [title |-> expected]
          /\ Cardinality(puts) <= 1
          /\ puts # {} => t # expected
          /\ (k <= r.index /\ t # expected) => puts # {}
          /\ Cardinality({e \in 1..Len(inserted) :
                            /\ inserted[e].action = "auto_optimize_title"
                            /\ inserted[e].details = <<"%s -> %s", t, expected>>})
               = Cardinality({c \in 1..Len(calls) :
                                /\ calls[c].method = "PUT"
                                /\ calls[c].answer = "ok"
                                /\ C9_Original(c) = t})

\* a run wrote a title with irregular white space back, and the next run went
\* through the list without a write-back
C9_Witness ==
  /\ Len(runs) = 2
  /\ runs[1].pc = "returned" /\ runs[1].count = 2
  /\ runs[1].products[1].title = <<"\t", "s", "S">>
  /\ \E c \in 1..Len(calls) :
       /\ calls[c].by = <<"run", 1>> /\ calls[c].answer = "ok"
       /\ calls[c].path = <<"/products/", 1, ".json">>
       /\ calls[c].body = [title |-> <<"S", "s">>]
  /\ runs[2].pc = "returned" /\ runs[2].index = 3 /\ runs[2].count = 0
  /\ runs[2].products[1].title = <<"S", "s">>
  /\ Len(CallsOf(calls, <<"run", 2>>)) = 1

\* ------------------------------------------------------ inventory tags
\* the tags between the commas of a tags string
TagPieces ==
  { <<>>, <<"x">>, <<" ", "y", " ">>, STOCK_LOW, <<" ">> \o STOCK_OUT,
    <<" ">> \o STOCK_AVAILABLE, <<"S", "t", "o", "c", "k", "-", "x">> }

TagStrings ==
  {join(pieces, <<",">>) : pieces \in UNION {[1..n -> TagPieces] : n \in 1..MaxTags}}

\* inventory_quantity: absent, or a number
Quantities == {<<>>, <<0>>, <<1>>, <<9>>, <<-1>>}

VariantLists == UNION {[1..n -> {Variant(q) : q \in Quantities}] : n \in 0..MaxVariants}

\* a configured service and a store of one product with any tags and variants
InitTags ==
  /\ Start({<<[ProductA EXCEPT !.tags = g, !.variants = v]>> :
              g \in TagStrings, v \in VariantLists})
  /\ ~NotConfigured

\* one manual run of updateInventoryTags
NextTags ==
  \/ ServerStart
  \/ runs = <<>> /\ Trigger("updateInventoryTags")
  \/ RoutineSteps

SpecTags == InitTags /\ [][NextTags]_vars

\* the sum of the quantities, a missing one counting 0
RECURSIVE C10_Sum(_)
C10_Sum(variants) ==
  IF variants = <<>> THEN 0
  ELSE (IF Head(variants).inventory_quantity = <<>> THEN 0
        ELSE Head(variants).inventory_quantity[1]) + C10_Sum(Tail(variants))

C10_IsStockTag(tag) ==
  Len(tag) >= 6 /\ SubSeq(tag, 1, 6) = <<"s", "t", "o", "c", "k", "-">>

C10_NotStockTag(tag) == ~C10_IsStockTag(tag)

\* the tags of a tags string: its parts between commas, trimmed
C10_Parsed(tags) ==
  LET parts == split(tags, ",") IN [k \in 1..Len(parts) |-> trim(parts[k])]

\* C10: the tags string that inventory tagging computes for a product holds
\* the product's former tags that are no stock-* tag, trimmed and in order,
\* then exactly one stock-* tag, the one its summed quantity selects, joined
\* with ", "; it is written back if and only if it differs from the former
\* string (a product not written back has that string already).
C10_TagRule ==
  \A i \in 1..Len(runs) :
    \A k \in 1..Len(runs[i].products) :
      LET r == runs[i]
          p == r.products[k]
          puts == {c \in 1..Len(calls) :
                     /\ calls[c].by = <<"run", i>>
                     /\ calls[c].method = "PUT"
                     /\ calls[c].path = <<"/products/", p.id, ".json">>}
          sum == C10_Sum(p.variants)
          kept == SelectSeq(C10_Parsed(p.tags), C10_NotStockTag)
      IN  /\ Cardinality(puts) <= 1
          /\ \A c \in puts :
               /\ DOMAIN calls[c].body = {"tags"}
               /\ calls[c].body.tags # p.tags
          /\ k <= r.index =>
               LET computed == IF puts = {} THEN p.tags
                               ELSE calls[CHOOSE c \in puts : TRUE].body.tags
                   parsed == C10_Parsed(computed)
                   last == parsed[Len(parsed)]
               IN  /\ SubSeq(parsed, 1, Len(parsed) - 1) = kept
                   /\ C10_IsStockTag(last)
                   /\ sum = 0 => last = STOCK_OUT
                   /\ (1 <= sum /\ sum <= 9) => last = STOCK_LOW
                   /\ sum >= 10 => last = STOCK_AVAILABLE
                   /\ computed = join(Append(kept, last), <<",", " ">>)

\* quantities 9 and 1: "x,stock-low" was written back as "x, stock-available"
C10_Witness ==
  /\ Len(runs) = 1 /\ runs[1].pc = "returned" /\ runs[1].count = 1
  /\ runs[1].products[1].tags = <<"x", ",">> \o STOCK_LOW
  /\ runs[1].products[1].variants = <<Variant(<<9>>), Variant(<<1>>)>>
  /\ \E c \in 1..Len(calls) :
       /\ calls[c].by = <<"run", 1>> /\ calls[c].answer = "ok"
       /\ calls[c].body = [tags |-> <<"x", ",", " ">> \o STOCK_AVAILABLE]
  /\ catalog[1].tags = <<"x", ",", " ">> \o STOCK_AVAILABLE

\* ------------------------------------------------------ SEO generation
\* body_html: absent, or a text around the minimum length
Bodies ==
  {<<>>, <<Text(0)>>, <<Text(SEO_MIN_LENGTH - 1)>>, <<Text(SEO_MIN_LENGTH)>>,
   <<Text(SEO_MIN_LENGTH + 1)>>}

\* product_type and vendor: empty or not
Labels == {<<>>, <<"s">>}

\* a configured service and a store of two products with any description,
\* the first with any product type and vendor
InitSeo ==
  /\ Start({<<[ProductA EXCEPT !.title = <<"X">>, !.body_html = b1,
                               !.product_type = t, !.vendor = v],
              [ProductB EXCEPT !.body_html = b2]>> :
              b1 \in Bodies, b2 \in Bodies, t \in Labels, v \in Labels})
  /\ ~NotConfigured

\* runs of generateSEODescriptions, one after the other
NextSeo ==
  \/ ServerStart
  \/ Quiet /\ Len(runs) < MaxRuns /\ Trigger("generateSEODescriptions")
  \/ RoutineSteps

SpecSeo == InitSeo /\ [][NextSeo]_vars

\* the description as the concatenation of the four parts
C11_Expected(p) ==
  <<"S", "h", "o", "p", " ">> \o p.title
  \o <<" ", "a", "t", " ", "T", "e", "c", "h", "H", "i", "v", "e", ".", " ">>
  \o (IF p.product_type # <<>>
      THEN <<"C", "a", "t", "e", "g", "o", "r", "y", ":", " ">> \o p.product_type
           \o <<".", " ">>
      ELSE <<>>)
  \o (IF p.vendor # <<>>
      THEN <<"B", "r", "a", "n", "d", ":", " ">> \o p.vendor \o <<".", " ">>
      ELSE <<>>)
  \o <<"F", "a", "s", "t", " ", "s", "h", "i", "p", "p", "i", "n", "g", " ",
       "a", "n", "d", " ", "g", "r", "e", "a", "t", " ", "p", "r", "i", "c",
       "e", "s", "!">>

\* C11: the description written back for a product is exactly
\* "Shop {title} at TechHive. " + ("Category: {product_type}. " if the type
\* is non-empty) + ("Brand: {vendor}. " if the vendor is non-empty) +
\* "Fast shipping and great prices!", with no other character.
C11_DescriptionExact ==
  \A i \in 1..Len(runs) :
    \A k \in 1..Len(runs[i].products) :
      \A c \in 1..Len(calls) :
        ( /\ runs[i].routine = "generateSEODescriptions"
          /\ calls[c].by = <<"run", i>>
          /\ calls[c].method = "PUT"
          /\ calls[c].path = <<"/products/", runs[i].products[k].id, ".json">> )
        => calls[c].body = [body_html |-> <<C11_Expected(runs[i].products[k])>>]

\* C12: generateSEODescriptions issues the write-back of a product if and
\* only if its description is absent or shorter than 50 characters; whatever
\* the description of a qualifying product is, it is written back, once.
C12_WriteBackIffShort ==
  \A i \in 1..Len(runs) :
    \A k \in 1..Len(runs[i].products) :
      LET r == runs[i]
          p == r.products[k]
          puts == {c \in 1..Len(calls) :
                     /\ calls[c].by = <<"run", i>>
                     /\ calls[c].method = "PUT"
                     /\ calls[c].path = <<"/products/", p.id, ".json">>}
          qualifies == p.body_html = <<>> \/ Len(p.body_html[1]) < 50
      IN  /\ Cardinality(puts) <= 1
          /\ puts # {} => qualifies
          /\ (k <= r.index /\ qualifies) => puts # {}
          /\ \A c \in puts : DOMAIN calls[c].body = {"body_html"}

\* one run over a description of 49 characters, written back, and one of 50,
\* left alone
C12_Witness ==
  /\ Len(runs) = 1 /\ runs[1].pc = "returned" /\ runs[1].count = 1
  /\ runs[1].products[1].body_html # <<>>
  /\ runs[1].products[2].body_html # <<>>
  /\ Len(runs[1].products[1].body_html[1]) = 49
  /\ Len(runs[1].products[2].body_html[1]) = 50
  /\ Len(calls) = 2 /\ calls[2].path = <<"/products/", 1, ".json">>
  /\ calls[2].answer = "ok"
  /\ Len(catalog[1].body_html[1]) > 50
  /\ Len(catalog[2].body_html[1]) = 50

\* ------------------------------------------------------ manual triggers
\* the routines a trigger endpoint starts, in order, and its message
C13_Started(ep) ==
  CASE ep = "POST /api/automation/optimize-titles" ->
         [routines |-> <<"optimizeTitles">>, message |-> "Title optimization started"]
    [] ep = "POST /api/automation/update-inventory-tags" ->
         [routines |-> <<"updateInventoryTags">>,
          message |-> "Inventory tag update started"]
    [] ep = "POST /api/automation/generate-seo" ->
         [routines |-> <<"generateSEODescriptions">>,
          message |-> "SEO generation started"]
    [] ep = "POST /api/automation/run-all" ->
         [routines |-> <<"optimizeTitles", "updateInventoryTags",
                         "generateSEODescriptions">>,
          message |-> "All automation tasks started"]

C13_Endpoints ==
  {"POST /api/automation/optimize-titles",
   "POST /api/automation/update-inventory-tags",
   "POST /api/automation/generate-seo", "POST /api/automation/run-all"}

\* C13: when a manual trigger endpoint responds, with its fixed success
\* message, the routines it started are the last invocations, in order, and
\* none has completed a step of its own: with configuration each still waits
\* for its product list and has logged nothing.  run-all has started all
\* three and its manual_trigger entry is the last one logged.
C13_StartedWithoutWaiting ==
  out.ep \in C13_Endpoints =>
    LET started == C13_Started(out.ep).routines
        n == Len(started)
        first == Len(runs) - n
    IN  /\ out.status = 200
        /\ out.body = [message |-> C13_Started(out.ep).message]
        /\ first >= 0
        /\ \A k \in 1..n :
             LET r == runs[first + k]
                 own == {c \in 1..Len(calls) : calls[c].by = <<"run", first + k>>}
             IN  /\ r.routine = started[k]
                 /\ r.trigger # "cron"
                 /\ r.products = <<>> /\ r.count = 0
                 /\ IF NotConfigured
                    THEN r.pc = "returned" /\ own = {}
                    ELSE /\ r.pc = "fetching"
                         /\ Cardinality(own) = 1
                         /\ \A c \in own : /\ calls[c].answer = "pending"
                                           /\ calls[c].method = "GET"
        /\ out.ep = "POST /api/automation/run-all" =>
             /\ inserted # <<>>
             /\ inserted[Len(inserted)].action = "manual_trigger"
             /\ Cardinality({e \in 1..Len(inserted) :
                               inserted[e].action = "manual_trigger"}) = 1

\* run-all has just responded with its three routines waiting for the store
C13_Witness ==
  /\ out.ep = "POST /api/automation/run-all"
  /\ ~NotConfigured
  /\ Len(runs) = 3
  /\ \A k \in 1..3 : runs[k].pc = "fetching"
  /\ Len(calls) = 3

\* ------------------------------------------------------ termination
\* The automation with a store that answers every call it receives: weak
\* fairness of RoutineSteps, WF_vars(RoutineSteps), written with the enabling
\* condition of RoutineSteps spelled out (a run is waiting, ~Quiet).
AnswersReturn == []<>Quiet \/ []<><<RoutineSteps>>_vars

SpecReturning == Init /\ [][Next]_vars /\ AnswersReturn

C14_Names(routine) ==
  CASE routine = "optimizeTitles" ->
         [complete |-> "title_optimization_complete", error |-> "title_optimization",
          item |-> "auto_optimize_title", summary |-> "Optimized %s product titles"]
    [] routine = "updateInventoryTags" ->
         [complete |-> "inventory_tagging_complete", error |-> "inventory_tagging",
          item |-> "auto_inventory_tag", summary |-> "Updated %s product tags"]
    [] routine = "generateSEODescriptions" ->
         [complete |-> "seo_generation_complete", error |-> "seo_generation",
          item |-> "auto_seo", summary |-> "Generated %s SEO descriptions"]

C14_TerminalActions ==
  {"title_optimization_complete", "title_optimization",
   "inventory_tagging_complete", "inventory_tagging",
   "seo_generation_complete", "seo_generation"}

\* the write-backs of run i that succeeded
C14_Written(i) ==
  {c \in 1..Len(calls) :
     calls[c].by = <<"run", i>> /\ calls[c].method = "PUT" /\ calls[c].answer = "ok"}

\* the calls of run i that failed
C14_Failed(i) ==
  {c \in 1..Len(calls) :
     calls[c].by = <<"run", i>> /\ calls[c].answer \notin {"pending", "ok"}}

\* the one terminal entry of a returned run
C14_Terminal(i) ==
  LET names == C14_Names(runs[i].routine)
  IN  IF C14_Failed(i) # {}
      THEN [action |-> names.error,
            details |-> <<"%s", calls[CHOOSE c \in C14_Failed(i) : TRUE].answer>>,
            status |-> "error"]
      ELSE [action |-> names.complete,
            details |-> <<names.summary, Cardinality(C14_Written(i))>>,
            status |-> "success"]

C14_Returned == {i \in 1..Len(runs) : runs[i].pc = "returned"}

C14_OneTerminalEntry ==
  ~NotConfigured =>
    /\ \A i \in 1..Len(runs) : Cardinality(C14_Failed(i)) <= 1
    \* the terminal entries logged are, one each, those of the returned runs
    /\ \A e \in {inserted[k] : k \in 1..Len(inserted)}
                \cup {C14_Terminal(i) : i \in C14_Returned} :
         e.action \in C14_TerminalActions =>
           Cardinality({k \in 1..Len(inserted) : inserted[k] = e})
             = Cardinality({i \in C14_Returned : C14_Terminal(i) = e})
    \* the per-item entries logged are, one each, the successful write-backs
    /\ \A routine \in Routines :
         Cardinality({k \in 1..Len(inserted) :
                        inserted[k].action = C14_Names(routine).item
                        /\ inserted[k].status = "success"})
           = Cardinality(UNION {C14_Written(i) :
                                  i \in {j \in 1..Len(runs) : runs[j].routine = routine}})
    \* a failed fetch: no write-back
    /\ \A i \in 1..Len(runs) :
         (\E c \in C14_Failed(i) : calls[c].method = "GET") =>
           \A c \in 1..Len(calls) : calls[c].by = <<"run", i>> => calls[c].method = "GET"

\* C14: with configuration present and every upstream call returning, each
\* invocation of a routine returns, and a returned invocation has logged
\* exactly one terminal entry: the summary entry whose count is the number of
\* its successful write-backs (one per-item entry each), or the error entry
\* with the failure message; a failed fetch issues no write-back.
C14_TerminatesWithOneEntry ==
  /\ []C14_OneTerminalEntry
  /\ (~NotConfigured /\ ~Quiet) ~> Quiet

\* a run ended by a failed write-back, then a run that wrote both products
C14_Witness ==
  /\ Len(runs) = 2 /\ Quiet
  /\ \E c \in C14_Failed(1) : calls[c].method = "PUT"
  /\ runs[1].routine = runs[2].routine
  /\ Cardinality(C14_Written(2)) = 2
  /\ inserted[Len(inserted)] = C14_Terminal(2)
  /\ inserted[Len(inserted)].status = "success"

\* ------------------------------------------------------ concurrent runs
\* a configured service; optimizeTitles started by its schedule and then by
\* its manual trigger at any time, whatever is in progress
InitConcurrent == Start({<<ProductA, ProductB>>}) /\ ~NotConfigured

NextConcurrent ==
  \/ ServerStart
  \/ runs = <<>> /\ Scheduled("optimizeTitles")
  \/ runs # <<>> /\ Len(runs) < MaxRuns /\ Trigger("optimizeTitles")
  \/ RoutineSteps

SpecConcurrent == InitConcurrent /\ [][NextConcurrent]_vars

\* the write-backs issued by run i: product and body, in issue order
C15_Puts(i) ==
  LET own == SelectSeq(calls, LAMBDA c : c.by = <<"run", i>> /\ c.method = "PUT")
  IN  [k \in 1..Len(own) |-> <<own[k].path, own[k].body>>]

C15_IsPrefix(s, t) == Len(s) <= Len(t) /\ SubSeq(t, 1, Len(s)) = s

\* C15: nothing excludes a second invocation of a routine while one is in
\* progress: the manual trigger and the schedule are accepted in every state
\* of the listening service, and two invocations that fetched the same
\* product list issue the same write-backs, product by product.
C15_NoMutualExclusion ==
  /\ listening =>
       /\ ENABLED Trigger("optimizeTitles")
       /\ ENABLED Scheduled("optimizeTitles")
  /\ \A i \in 1..Len(runs) : \A j \in 1..Len(runs) :
       ( /\ runs[i].routine = runs[j].routine
         /\ runs[i].products # <<>>
         /\ runs[i].products = runs[j].products )
       => \/ C15_IsPrefix(C15_Puts(i), C15_Puts(j))
          \/ C15_IsPrefix(C15_Puts(j), C15_Puts(i))

\* a manual and a scheduled invocation fetched the same list before either
\* wrote; their write-backs interleaved, both wrote both products, and every
\* per-item entry and the summary entry is in the log twice
C15_Witness ==
  /\ Len(runs) = 2 /\ Quiet
  /\ {runs[1].trigger, runs[2].trigger} = {"cron", "manual"}
  /\ runs[1].products = <<ProductA, ProductB>>
  /\ runs[2].products = <<ProductA, ProductB>>
  /\ Len(calls) = 6
  /\ \A c \in 1..6 : calls[c].answer = "ok"
  /\ calls[3].by # calls[4].by /\ calls[3].path = calls[4].path
  /\ calls[5].by # calls[6].by /\ calls[5].path = calls[6].path
  /\ \A e \in {inserted[k] : k \in 1..Len(inserted)} :
       e.action \in {"auto_optimize_title", "title_optimization_complete"} =>
         Cardinality({k \in 1..Len(inserted) : inserted[k] = e}) = 2
  /\ Cardinality({k \in 1..Len(inserted) :
                    inserted[k].action = "auto_optimize_title"}) = 4

\* ------------------------------------------------------ no retry
\* the productIds of a bulk edit: absent, empty, one id twice, an unknown id
OnceInputs == {<<>>, <<<<>>>>, <<<<1, 1>>>>, <<<<3, 2>>>>}

InitOnce == Start({<<ProductA, ProductB>>}) /\ ~NotConfigured

\* one invocation of a routine and one bulk edit, at any time
NextOnce ==
  \/ ServerStart
  \/ \E r \in Routines : runs = <<>> /\ Trigger(r)
  \/ \E productIds \in OnceInputs : reqs = <<>> /\ BulkEdit(productIds, BulkUpdates)
  \/ RoutineSteps
  \/ \E j \in 1..Len(reqs) : BulkAnswered(j)
  \/ \E j \in 1..Len(reqs), m \in ErrorMessages : BulkFailed(j, m)

SpecOnce == InitOnce /\ [][NextOnce]_vars

\* C16: nothing is retried.  An invocation of a routine fetches the product
\* list at most once and sends at most one write-back per fetched product; a
\* bulk edit sends the k-th update request for its k-th id and no other, so
\* that, once it has responded, each position has received exactly one
\* request, failed or not.
C16_NothingRetried ==
  /\ \A i \in 1..Len(runs) :
       LET mine == CallsOf(calls, <<"run", i>>)
       IN  /\ Cardinality({c \in 1..Len(mine) : mine[c].method = "GET"}) <= 1
           /\ \A c \in 1..Len(mine) :
                mine[c].method = "PUT" =>
                  \E k \in 1..Len(runs[i].products) :
                    mine[c].path = <<"/products/", runs[i].products[k].id, ".json">>
           /\ \A k \in 1..Len(runs[i].products) :
                Cardinality({c \in 1..Len(mine) :
                               /\ mine[c].method = "PUT"
                               /\ mine[c].path =
                                    <<"/products/", runs[i].products[k].id, ".json">>})
                  <= 1
  /\ \A j \in 1..Len(reqs) :
       LET ids == IF reqs[j].productIds = <<>> THEN <<>> ELSE reqs[j].productIds[1]
           mine == CallsOf(calls, <<"req", j>>)
       IN  /\ Len(mine) <= Len(ids)
           /\ \A k \in 1..Len(mine) :
                mine[k].method = "PUT" /\ mine[k].path = <<"/products/", ids[k], ".json">>
           /\ reqs[j].pc = "done" => Len(mine) = Len(ids)

\* a bulk edit of one id twice whose first request failed has responded after
\* two requests, and a routine returned after its write-back failed
C16_Witness ==
  /\ Len(reqs) = 1 /\ reqs[1].pc = "done"
  /\ reqs[1].productIds = <<<<1, 1>>>>
  /\ LET mine == CallsOf(calls, <<"req", 1>>)
     IN  /\ Len(mine) = 2
         /\ mine[1].answer \in ErrorMessages
         /\ mine[2].answer = "ok"
  /\ Len(runs) = 1 /\ runs[1].pc = "returned"
  /\ LET mine == CallsOf(calls, <<"run", 1>>)
     IN  /\ Len(mine) = 2
         /\ mine[2].method = "PUT" /\ mine[2].answer \in ErrorMessages

\* ------------------------------------------------------ scheduled tasks
C17_Details(routine) ==
  CASE routine = "optimizeTitles" -> "Running daily title optimization"
    [] routine = "updateInventoryTags" -> "Running inventory tag update"
    [] routine = "generateSEODescriptions" -> "Running weekly SEO generation"

\* a step in which a schedule invokes its routine
C17_ScheduleFires ==
  /\ Len(runs') = Len(runs) + 1
  /\ runs'[Len(runs')].trigger = "cron"

\* C17: the step in which a schedule invokes its routine appends the
\* scheduled_task entry of that routine and nothing else, configuration or
\* not; the invocation has then logged nothing and at most issued its fetch,
\* so every entry it appends is newer.  The log history is only appended to,
\* and holds one scheduled_task entry per scheduled invocation.
C17_ScheduledTaskFirst ==
  /\ [][ C17_ScheduleFires =>
           LET i == Len(runs')
           IN  /\ inserted' = Append(inserted,
                                     [action |-> "scheduled_task",
                                      details |-> <<C17_Details(runs'[i].routine)>>,
                                      status |-> "success"])
               /\ automationLogs'[1] = inserted'[Len(inserted')]
               /\ runs'[i].products = <<>>
               /\ IF NotConfigured
                  THEN runs'[i].pc = "returned" /\ calls' = calls
                  ELSE /\ runs'[i].pc = "fetching"
                       /\ Len(calls') = Len(calls) + 1
                       /\ calls'[Len(calls')].by = <<"run", i>>
                       /\ calls'[Len(calls')].answer = "pending" ]_vars
  /\ [][ /\ Len(inserted') >= Len(inserted)
         /\ SubSeq(inserted', 1, Len(inserted)) = inserted ]_vars
  /\ [](Cardinality({k \in 1..Len(inserted) : inserted[k].action = "scheduled_task"})
          = Cardinality({i \in 1..Len(runs) : runs[i].trigger = "cron"}))

\* a scheduled run wrote a product: its scheduled_task entry is directly
\* followed by the run's first per-item entry
C17_Witness ==
  /\ Len(runs) >= 1 /\ runs[1].trigger = "cron" /\ runs[1].count >= 1
  /\ \E k \in 1..(Len(inserted) - 1) :
       /\ inserted[k].action = "scheduled_task"
       /\ inserted[k + 1].action \in
            {"auto_optimize_title", "auto_inventory_tag", "auto_seo"}

\* ------------------------------------------------------ serving on
\* the upstream answers to invocation i
RunSteps(i) ==
  /\ i <= Len(runs)
  /\ \/ RoutineFetched(i)
     \/ RoutineWritten(i)
     \/ \E m \in ErrorMessages : RoutineFailed(i, m)

\* the upstream answers to the bulk edits
BulkSteps ==
  \/ \E j \in 1..Len(reqs) : BulkAnswered(j)
  \/ \E j \in 1..Len(reqs), m \in ErrorMessages : BulkFailed(j, m)

ServingInput == <<<<1, 3>>>>

InitServing == Start({<<ProductA, ProductB>>}) /\ ~NotConfigured

\* A first invocation of optimizeTitles, whose fetch fails or stays
\* unanswered; then, at any time, reads of the log, one bulk edit and one
\* invocation of updateInventoryTags.
NextServing ==
  \/ ServerStart
  \/ runs = <<>> /\ Trigger("optimizeTitles")
  \/ runs # <<>> /\ \E m \in ErrorMessages : RoutineFailed(1, m)
  \/ runs # <<>> /\ GetLogs
  \/ runs # <<>> /\ reqs = <<>> /\ BulkEdit(ServingInput, BulkUpdates)
  \/ Len(runs) = 1 /\ Trigger("updateInventoryTags")
  \/ RunSteps(2)
  \/ BulkSteps

\* The store answers every call of the bulk edit and of the second
\* invocation (weak fairness of BulkSteps and of RunSteps(2), their enabling
\* conditions spelled out); the calls of the first invocation may stay
\* unanswered forever.
OthersReturn ==
  /\ []<>(\A j \in 1..Len(reqs) : reqs[j].pc = "done") \/ []<><<BulkSteps>>_vars
  /\ []<>(Len(runs) < 2 \/ runs[2].pc = "returned") \/ []<><<RunSteps(2)>>_vars

SpecServing == InitServing /\ [][NextServing]_vars /\ OthersReturn

\* C18: whatever the first invocation does (waiting on an unanswered call
\* or failed), the listening service accepts a read of the log, a
\* health check, a bulk edit and a routine trigger, answers the first two at
\* once, and, its own upstream calls being answered, responds to the bulk
\* edit and brings the triggered routine to its end.
C18_KeepsServing ==
  /\ [](listening =>
          /\ ENABLED GetLogs
          /\ ENABLED Health
          /\ ENABLED BulkEdit(ServingInput, BulkUpdates)
          /\ ENABLED Trigger("updateInventoryTags"))
  /\ [](out.ep \in {"GET /api/automation/logs", "GET /health"} => out.status = 200)
  /\ (\E j \in 1..Len(reqs) : reqs[j].pc = "awaiting")
       ~> (out.ep = "POST /api/bulk-edit" /\ out.status = 200)
  /\ (Len(runs) = 2) ~> (Len(runs) = 2 /\ runs[2].pc = "returned")

\* the first invocation still waits for its product list, while the bulk edit
\* has responded, the second invocation has finished and the log is served
C18_Witness ==
  /\ Len(runs) = 2 /\ runs[1].pc = "fetching" /\ runs[2].pc = "returned"
  /\ runs[2].count = 1
  /\ Len(reqs) = 1 /\ reqs[1].pc = "done"
  /\ out.ep = "GET /api/automation/logs"
  /\ Len(out.body.logs) = 5

\* ------------------------------------------------------ tagging again
\* the variants of the product: none, out of stock, low, available, oversold
StockLevels ==
  { <<>>, <<Variant(<<0>>)>>, <<Variant(<<1>>), Variant(<<>>)>>,
    <<Variant(<<9>>), Variant(<<1>>)>>, <<Variant(<<-1>>)>> }

\* a configured service and a store of one product with any tags, which
\* keeps the written tags string as it is and whose quantities stay
InitAgain ==
  /\ Start({<<[ProductA EXCEPT !.tags = g, !.variants = v]>> :
              g \in TagStrings, v \in StockLevels})
  /\ ~NotConfigured

\* runs of updateInventoryTags, one after the other
NextAgain ==
  \/ ServerStart
  \/ Quiet /\ Len(runs) < MaxRuns /\ Trigger("updateInventoryTags")
  \/ RoutineSteps

SpecAgain == InitAgain /\ [][NextAgain]_vars

\* run i ended with its summary entry, no call of it having failed
C19_Completed(i) ==
  /\ runs[i].pc = "returned"
  /\ \A c \in 1..Len(calls) :
       calls[c].by = <<"run", i>> => calls[c].answer = "ok"

\* C19: after a run of updateInventoryTags whose write-backs all succeeded,
\* the following run, once it has fetched the products, issues no write-back
\* and ends logging "Updated 0 product tags".
C19_ConvergesInOnePass ==
  \A i \in 1..(Len(runs) - 1) :
    (C19_Completed(i) /\ runs[i + 1].products # <<>>) =>
      /\ \A c \in 1..Len(calls) :
           calls[c].by = <<"run", i + 1>> => calls[c].method = "GET"
      /\ runs[i + 1].pc = "returned" /\ runs[i + 1].count = 0
      /\ runs[i + 1].products = runs[i].products
           \/ \E c \in 1..Len(calls) :
                /\ calls[c].by = <<"run", i>> /\ calls[c].method = "PUT"
                /\ runs[i + 1].products[1].tags = calls[c].body.tags
      /\ i + 1 = Len(runs) =>
           inserted[Len(inserted)] =
             [action |-> "inventory_tagging_complete",
              details |-> <<"Updated %s product tags", 0>>, status |-> "success"]

\* the product had an empty tags string; the first run wrote ", stock-out",
\* the second run wrote nothing and logged a count of 0
C19_Witness ==
  /\ Len(runs) = 2 /\ C19_Completed(1) /\ C19_Completed(2)
  /\ runs[1].products[1].tags = <<>>
  /\ runs[1].count = 1 /\ runs[2].count = 0
  /\ runs[2].products[1].tags = <<",", " ">> \o STOCK_OUT
  /\ Len(calls) = 3
  /\ inserted[Len(inserted)].details = <<"Updated %s product tags", 0>>

====
